---------------------------- MODULE Spec2Model ----------------------------
(***************************************************************************)
(* Model of the HGNC MCP stdio test harness (src/test_mcp_stdio.py) and of *)
(* the capability retrieval of the schema validator                        *)
(* (src/validate-mcp-schema.py).                                           *)
(*                                                                         *)
(* Text is modelled as a sequence of lexical tokens, so that json.dumps,   *)
(* str.split, str.strip, the substring test and json.loads are real        *)
(* conversions.  JSON values are tagged records [t, v]; a Python dict is   *)
(* the insertion-ordered sequence of its [k, v] items.                     *)
(*                                                                         *)
(* Not modelled: TestResult.duration (wall-clock floats), the verbose      *)
(* printing, stderr (captured, never parsed).                              *)
(***************************************************************************)
EXTENDS Integers, Sequences, FiniteSets, TLC

(***************************************************************************)
(* Bounds of the model.                                                    *)
(***************************************************************************)
\* longest captured output, in lines, the pure-function specification draws
MaxLines == 2
\* largest configured --timeout, in clock ticks (0 is a legal value)
MaxTimeout == 1
\* longest capability list a server advertises to the validator
MaxEntries == 2
MaxRuns == 2

(***************************************************************************)
(* JSON values (what json.loads returns, what json.dumps takes).           *)
(***************************************************************************)
JStr(s) == [t |-> "str", v |-> s]
JNum(n) == [t |-> "num", v |-> n]
JNull == [t |-> "null", v |-> 0]
JList(s) == [t |-> "list", v |-> s]
JObj(items) == [t |-> "obj", v |-> items]
Item(key, val) == [k |-> key, v |-> val]
\* Python's None where a dict is optional (Optional[Dict])
None == [t |-> "none", v |-> 0]

\* key in d, for a dict d
HasKey(d, key) == \E i \in 1..Len(d.v) : d.v[i].k = key
\* d[key], for a dict d that has the key
Get(d, key) == d.v[CHOOSE i \in 1..Len(d.v) : d.v[i].k = key].v
\* d.get(key, default)
GetOr(d, key, default) == IF HasKey(d, key) THEN Get(d, key) ELSE default

\* d[key] = val on a dict under construction: a new key is appended, a
\* repeated key keeps its place and takes the new value
SetItem(items, key, val) ==
    IF \E i \in 1..Len(items) : items[i].k = key
    THEN [i \in 1..Len(items) |->
            IF items[i].k = key THEN Item(key, val) ELSE items[i]]
    ELSE Append(items, Item(key, val))

(***************************************************************************)
(* Lexical tokens of text.                                                 *)
(***************************************************************************)
\* punctuation and white space, one character each
P(c) == [t |-> "p", v |-> c]
\* a double-quoted string literal, quotes included: "jsonrpc"
S(s) == [t |-> "s", v |-> s]
\* a number literal
N(n) == [t |-> "n", v |-> n]
\* a bare word: null, or a word of log text
W(w) == [t |-> "w", v |-> w]
NL == P("\n")
SP == P(" ")
IsP(tk, c) == tk.t = "p" /\ tk.v = c
IsSpace(tk) == tk.t = "p" /\ tk.v \in {" ", "\n", "\r", "\t"}

(***************************************************************************)
(* json.dumps with the default separators ", " and ": ".                   *)
(***************************************************************************)
RECURSIVE json_dumps(_)
RECURSIVE dumps_elems(_, _)
RECURSIVE dumps_items(_, _)
dumps_elems(s, i) ==
    IF i > Len(s) THEN << >>
    ELSE (IF i > 1 THEN <<P(","), SP>> ELSE << >>)
         \o json_dumps(s[i]) \o dumps_elems(s, i + 1)
dumps_items(s, i) ==
    IF i > Len(s) THEN << >>
    ELSE (IF i > 1 THEN <<P(","), SP>> ELSE << >>)
         \o <<S(s[i].k), P(":"), SP>> \o json_dumps(s[i].v)
         \o dumps_items(s, i + 1)
json_dumps(x) ==
    CASE x.t = "str" -> <<S(x.v)>>
      [] x.t = "num" -> <<N(x.v)>>
      [] x.t = "null" -> <<W("null")>>
      [] x.t = "list" -> <<P("[")>> \o dumps_elems(x.v, 1) \o <<P("]")>>
      [] x.t = "obj" -> <<P("{")>> \o dumps_items(x.v, 1) \o <<P("}")>>

(***************************************************************************)
(* json.loads: a recursive-descent parse of the whole text.                *)
(***************************************************************************)
\* the JSONDecodeError outcome
DecodeError == [ok |-> FALSE, val |-> JNull, nxt |-> 0]
Parsed(val, nxt) == [ok |-> TRUE, val |-> val, nxt |-> nxt]

\* the first index from i on that holds no white space (Len + 1 if none)
skip_ws(toks, i) ==
    LET rest == {j \in i..Len(toks) : ~IsSpace(toks[j])} IN
    IF rest = {} THEN (IF i > Len(toks) THEN i ELSE Len(toks) + 1)
    ELSE CHOOSE j \in rest : \A m \in rest : j <= m

\* One operator per parsing step, each taking what the step before it
\* computed.
RECURSIVE parse_value(_, _)
RECURSIVE parse_elems(_, _, _)
RECURSIVE parse_items(_, _, _)
\* after an element: ',' and the next element, or ']'
elems_next(toks, j, acc) ==
    IF j > Len(toks) THEN DecodeError
    ELSE IF IsP(toks[j], ",") THEN parse_elems(toks, j + 1, acc)
    ELSE IF IsP(toks[j], "]") THEN Parsed(JList(acc), j + 1)
    ELSE DecodeError
elems_value(toks, e, acc) ==
    IF ~e.ok THEN DecodeError
    ELSE elems_next(toks, skip_ws(toks, e.nxt), Append(acc, e.val))
\* after '[' or a ',': one element, then ',' or ']'
parse_elems(toks, i0, acc) == elems_value(toks, parse_value(toks, i0), acc)
\* after a member: ',' and the next member, or '}'
items_next(toks, j, items) ==
    IF j > Len(toks) THEN DecodeError
    ELSE IF IsP(toks[j], ",") THEN parse_items(toks, j + 1, items)
    ELSE IF IsP(toks[j], "}") THEN Parsed(JObj(items), j + 1)
    ELSE DecodeError
items_value(toks, key, e, acc) ==
    IF ~e.ok THEN DecodeError
    ELSE items_next(toks, skip_ws(toks, e.nxt), SetItem(acc, key, e.val))
items_colon(toks, key, c, acc) ==
    IF c > Len(toks) \/ ~IsP(toks[c], ":") THEN DecodeError
    ELSE items_value(toks, key, parse_value(toks, c + 1), acc)
items_key(toks, i, acc) ==
    IF i > Len(toks) \/ toks[i].t # "s" THEN DecodeError
    ELSE items_colon(toks, toks[i].v, skip_ws(toks, i + 1), acc)
\* after '{' or a ',': "key" ':' value, then ',' or '}'
parse_items(toks, i0, acc) == items_key(toks, skip_ws(toks, i0), acc)
\* after '{': '}' or the members
object_body(toks, j) ==
    IF j <= Len(toks) /\ IsP(toks[j], "}") THEN Parsed(JObj(<< >>), j + 1)
    ELSE parse_items(toks, j, << >>)
\* after '[': ']' or the elements
array_body(toks, j) ==
    IF j <= Len(toks) /\ IsP(toks[j], "]") THEN Parsed(JList(<< >>), j + 1)
    ELSE parse_elems(toks, j, << >>)
value_at(toks, i) ==
    IF i > Len(toks) THEN DecodeError
    ELSE CASE toks[i].t = "s" -> Parsed(JStr(toks[i].v), i + 1)
           [] toks[i].t = "n" -> Parsed(JNum(toks[i].v), i + 1)
           [] toks[i].t = "w" ->
                IF toks[i].v = "null" THEN Parsed(JNull, i + 1)
                ELSE DecodeError
           [] toks[i].t = "p" ->
                IF toks[i].v = "{" THEN object_body(toks, skip_ws(toks, i + 1))
                ELSE IF toks[i].v = "[" THEN array_body(toks, skip_ws(toks, i + 1))
                ELSE DecodeError
parse_value(toks, i0) == value_at(toks, skip_ws(toks, i0))
\* the whole text must be one value: trailing data is a JSONDecodeError
whole_text(toks, r) ==
    IF r.ok /\ skip_ws(toks, r.nxt) > Len(toks) THEN r ELSE DecodeError
\* json.loads(text): the value, or DecodeError
json_loads(toks) == whole_text(toks, parse_value(toks, 1))

(***************************************************************************)
(* str.split('\n') and str.strip().                                        *)
(***************************************************************************)
\* text.split("\n"): the pieces between newlines, the last one included
split_lines(text) ==
    LET nl == {i \in 1..Len(text) : IsP(text[i], "\n")}
        \* the position of the k-th newline; the end of the text after the last
        at(k) == IF k = 0 THEN 0
                 ELSE IF k > Cardinality(nl) THEN Len(text) + 1
                 ELSE CHOOSE p \in nl : Cardinality({q \in nl : q < p}) = k - 1
    IN [k \in 1..(Cardinality(nl) + 1) |->
            SubSeq(text, at(k - 1) + 1, at(k) - 1)]
\* line.strip(): without the white space at both ends
strip(line) ==
    LET inked == {i \in 1..Len(line) : ~IsSpace(line[i])} IN
    IF inked = {} THEN << >>
    ELSE SubSeq(line,
                CHOOSE i \in inked : \A m \in inked : i <= m,
                CHOOSE i \in inked : \A m \in inked : i >= m)

\* "\n".join(lines) + "\n"
RECURSIVE join_lines(_, _)
join_lines(lines, i) ==
    IF i > Len(lines) THEN <<NL>>
    ELSE (IF i > 1 THEN <<NL>> ELSE << >>)
         \o lines[i] \o join_lines(lines, i + 1)

(***************************************************************************)
(* The output scan shared by the three session calls.                      *)
(***************************************************************************)
\* line.startswith('{') and '"jsonrpc"' in line
is_candidate(line) ==
    /\ line # << >>
    /\ IsP(line[1], "{")
    /\ \E i \in 1..Len(line) : line[i].t = "s" /\ line[i].v = "jsonrpc"

\* the try block around json.loads: the decoded line, or nothing
decoded(line, r) == IF is_candidate(line) /\ r.ok THEN <<r.val>> ELSE << >>
recover(line) == decoded(line, json_loads(line))
\* send_sequence: every candidate line that decodes, in output order
RECURSIVE scan_all(_, _)
scan_all(lines, i) ==
    IF i > Len(lines) THEN << >>
    ELSE recover(strip(lines[i])) \o scan_all(lines, i + 1)
extract_responses(stdout) == scan_all(split_lines(stdout), 1)

\* send_message: the first candidate line that decodes, or None
first_of(found) == IF found = << >> THEN None ELSE found[1]
first_response(stdout) == first_of(extract_responses(stdout))

(***************************************************************************)
(* Python semantics the scenario functions rest on.                        *)
(***************************************************************************)
\* str(x) inside an f-string
py_str(x) ==
    CASE x.t = "str" -> x.v
      [] x.t = "num" -> ToString(x.v)
      [] x.t = "null" -> "None"
      [] OTHER -> ToString(x.v)
\* `key in x` for a text key; the caller excludes the types that raise.
\* No text of the model properly contains another, so the substring test
\* on a str is equality.
py_in(key, x) ==
    CASE x.t = "obj" -> HasKey(x, key)
      [] x.t = "list" -> \E i \in 1..Len(x.v) : x.v[i] = JStr(key)
      [] x.t = "str" -> x.v = key
      [] OTHER -> FALSE
\* bool(response) for Optional[Dict]
truthy(d) == d.t = "obj" /\ Len(d.v) > 0

\* a diagnostic: the literal text of the f-string and the formatted value
Msg(text, arg) == [text |-> text, arg |-> arg]
\* TestResult(name, passed, message, duration, response)
TestResult(name, passed, message, response) ==
    [kind |-> "result", name |-> name, passed |-> passed,
     message |-> message, response |-> response]
\* the scenario function raised instead of returning
Raised(exc) ==
    [kind |-> "raise", name |-> exc, passed |-> FALSE,
     message |-> Msg("", ""), response |-> None]

(***************************************************************************)
(* The scenario functions, from what the session call returned.            *)
(***************************************************************************)
test_initialize(response) ==
    IF truthy(response) /\ HasKey(response, "result")
    THEN LET result == Get(response, "result") IN
         IF result.t \in {"num", "null"} THEN Raised("TypeError")
         ELSE IF py_in("protocolVersion", result)
              THEN IF result.t = "obj"
                   THEN TestResult("MCP Initialize", TRUE,
                            Msg("Protocol version: ",
                                py_str(Get(result, "protocolVersion"))),
                            response)
                   ELSE Raised("TypeError")
         ELSE TestResult("MCP Initialize", FALSE,
                  Msg("No valid initialize response", ""), response)
    ELSE TestResult("MCP Initialize", FALSE,
             Msg("No valid initialize response", ""), response)

\* list_scenario as it would be with the follow-up response looked up by
\* its correlation id instead of its position
list_scenario_by_id(name, key, found, failed, responses) ==
    LET ids == {n \in 1..Len(responses) :
                   HasKey(responses[n], "id")
                   /\ Get(responses[n], "id") = JNum(2)}
        second == IF ids = {} THEN None
                  ELSE responses[CHOOSE n \in ids : \A m \in ids : n <= m] IN
    IF second # None /\ HasKey(second, "result")
    THEN TestResult(name, TRUE, Msg(found, "0"), second)
    ELSE TestResult(name, FALSE, Msg(failed, ""), second)
\* test_tools_list and test_resources_list differ in the names only
list_scenario(name, key, found, failed, responses) ==
    IF Len(responses) >= 2 /\ HasKey(responses[2], "result")
    THEN LET result == Get(responses[2], "result") IN
         IF result.t # "obj" THEN Raised("AttributeError")
         ELSE LET entries == GetOr(result, key, JList(<< >>)) IN
              IF entries.t \in {"list", "obj"}
              THEN TestResult(name, TRUE,
                       Msg(found, ToString(Len(entries.v))), responses[2])
              ELSE IF entries.t = "str"
              THEN TestResult(name, TRUE,
                       Msg(found, "len(" \o entries.v \o ")"), responses[2])
              ELSE Raised("TypeError")
    ELSE TestResult(name, FALSE, Msg(failed, ""),
             IF Len(responses) > 1 THEN responses[2] ELSE None)
test_tools_list(responses) ==
    list_scenario("List Tools", "tools", "Found {} tools",
                  "Failed to get tools list", responses)
test_resources_list(responses) ==
    list_scenario("List Resources", "resources", "Found {} resources",
                  "Failed to get resources list", responses)

\* test_call_tool as it would be without its error branch: an error
\* response is reported like a missing one
test_call_tool_no_error_branch(tool_name, responses) ==
    IF Len(responses) >= 2 /\ HasKey(responses[2], "result")
    THEN TestResult("Call Tool: " \o tool_name, TRUE,
             Msg("Tool executed successfully", ""), responses[2])
    ELSE TestResult("Call Tool: " \o tool_name, FALSE,
             Msg("No response from tool", ""),
             IF Len(responses) > 1 THEN responses[2] ELSE None)
test_call_tool(tool_name, responses) ==
    LET name == "Call Tool: " \o tool_name
        missing == TestResult(name, FALSE, Msg("No response from tool", ""),
                       IF Len(responses) > 1 THEN responses[2] ELSE None) IN
    IF Len(responses) >= 2
    THEN LET result == responses[2] IN
         IF HasKey(result, "result")
         THEN TestResult(name, TRUE,
                  Msg("Tool executed successfully", ""), result)
         ELSE IF HasKey(result, "error")
         THEN LET error == Get(result, "error") IN
              IF error.t # "obj" THEN Raised("AttributeError")
              ELSE TestResult(name, FALSE,
                       Msg("Tool error: ",
                           py_str(GetOr(error, "message", JStr("Unknown")))),
                       result)
         ELSE missing
    ELSE missing

test_invalid_method(response) ==
    IF truthy(response) /\ HasKey(response, "error")
    THEN LET error == Get(response, "error") IN
         IF error.t # "obj" THEN Raised("AttributeError")
         ELSE TestResult("Invalid Method Error Handling", TRUE,
                  Msg("Correctly returned error: ",
                      py_str(GetOr(error, "message", JStr("Unknown")))),
                  response)
    ELSE TestResult("Invalid Method Error Handling", FALSE,
             Msg("Did not return error for invalid method", ""), response)

(***************************************************************************)
(* get_mcp_capabilities: the output scan keyed by id, then the three       *)
(* lists.  Any exception inside the try block yields the empty lists.      *)
(***************************************************************************)
EmptyCapabilities ==
    [tools |-> JList(<< >>), prompts |-> JList(<< >>),
     resources |-> JList(<< >>)]
\* responses[response["id"]] = response["result"]; None when the
\* assignment raises: an id that is a list or a dict is unhashable
store(responses, found) ==
    IF responses = None \/ found = << >> THEN responses
    ELSE IF ~(HasKey(found[1], "id") /\ HasKey(found[1], "result"))
    THEN responses
    ELSE IF Get(found[1], "id").t \in {"list", "obj"} THEN None
    ELSE JObj(SetItem(responses.v, Get(found[1], "id"),
                      Get(found[1], "result")))
\* the dict `responses` after the scan of lines i.., or None
RECURSIVE scan_by_id(_, _, _)
scan_by_id(lines, i, responses) ==
    IF i > Len(lines) THEN responses
    ELSE scan_by_id(lines, i + 1, store(responses, recover(strip(lines[i]))))
\* responses.get(id, {}).get(key, []): the three lists, or the except branch
lists_of(r2, r3, r4) ==
    IF r2.t # "obj" \/ r3.t # "obj" \/ r4.t # "obj" THEN EmptyCapabilities
    ELSE [tools |-> GetOr(r2, "tools", JList(<< >>)),
          prompts |-> GetOr(r3, "prompts", JList(<< >>)),
          resources |-> GetOr(r4, "resources", JList(<< >>))]
\* by_id as it would be with the results taken by their position in the
\* output: the second for the tools, the third, the fourth
by_position(responses) ==
    IF responses = None THEN EmptyCapabilities
    ELSE LET nth(n) == IF Len(responses.v) >= n THEN responses.v[n].v
                       ELSE JObj(<< >>) IN
         lists_of(nth(2), nth(3), nth(4))
by_id(responses) ==
    IF responses = None THEN EmptyCapabilities
    ELSE lists_of(GetOr(responses, JNum(2), JObj(<< >>)),
                  GetOr(responses, JNum(3), JObj(<< >>)),
                  GetOr(responses, JNum(4), JObj(<< >>)))
capabilities_of(stdout) ==
    by_id(scan_by_id(split_lines(stdout), 1, JObj(<< >>)))

(***************************************************************************)
(* What a server may print: the objects it serialises, and other lines.    *)
(***************************************************************************)
Rpc(id, body) ==
    JObj(<<Item("jsonrpc", JStr("2.0")), Item("id", JNum(id))>> \o body)
Result(val) == <<Item("result", val)>>
Error(val) == <<Item("error", val)>>
BadArgs == JObj(<<Item("code", JNum(-32602)), Item("message", JStr("bad args"))>>)
OneTool == JList(<<JObj(<<Item("name", JStr("find"))>>)>>)
OneResource == JList(<<JObj(<<Item("uri", JStr("hgnc://stats"))>>)>>)
InitResult == JObj(<<Item("protocolVersion", JStr("2024-11-05"))>>)

\* well-formed responses: the tag, an id, exactly one of result and error
InitOk == Rpc(1, Result(InitResult))
ToolsOk == Rpc(2, Result(JObj(<<Item("tools", OneTool)>>)))
ToolsNone == Rpc(2, Result(JObj(<<Item("tools", JList(<< >>))>>)))
ResourcesOk == Rpc(2, Result(JObj(<<Item("resources", OneResource)>>)))
CallError == Rpc(2, Error(BadArgs))
NoMessage == Rpc(2, Error(JObj(<<Item("code", JNum(-32000))>>)))
NotFound ==
    Rpc(99, Error(JObj(<<Item("message", JStr("Method not found"))>>)))
ResultNoList == Rpc(2, Result(JObj(<< >>)))
WellFormed ==
    {InitOk, ToolsOk, ToolsNone, ResourcesOk, CallError, NoMessage, NotFound,
     ResultNoList}
\* tagged objects that break the response shape
BothMembers ==
    Rpc(2, Result(JObj(<<Item("tools", OneTool)>>)) \o Error(BadArgs))
ResultNull == Rpc(2, Result(JNull))
ResultNumber == Rpc(1, Result(JNum(5)))
ToolsNull == Rpc(2, Result(JObj(<<Item("tools", JNull)>>)))
ErrorText == Rpc(2, Error(JStr("boom")))
Notification ==
    JObj(<<Item("jsonrpc", JStr("2.0")),
           Item("method", JStr("notifications/message"))>>)
Malformed ==
    {BothMembers, ResultNull, ResultNumber, ToolsNull, ErrorText, Notification}
\* JSON objects that are no JSON-RPC messages
LogRecord == JObj(<<Item("level", JStr("info"))>>)
LogNested ==
    JObj(<<Item("level", JStr("debug")),
           Item("sent", JObj(<<Item("jsonrpc", JStr("2.0"))>>))>>)

\* the lines of the catalogue
LogText == <<W("INFO"), SP, W("starting")>>
LogQuoted == <<W("speaking"), SP, S("jsonrpc")>>
Partial == SubSeq(json_dumps(ToolsOk), 1, 9)
Padded == <<SP, SP>> \o json_dumps(InitOk) \o <<P("\r")>>
Lines ==
    {json_dumps(o) : o \in WellFormed \cup Malformed \cup {LogRecord, LogNested}}
    \cup {LogText, LogQuoted, Partial, Padded, << >>}

\* every output of at most n lines, each line ended by a newline
RECURSIVE Outputs(_)
Outputs(n) ==
    IF n = 0 THEN {<< >>}
    ELSE LET shorter == Outputs(n - 1) IN
         shorter \cup {o \o l \o <<NL>> : o \in shorter, l \in Lines}

\* the tools the full run calls
ToolNames ==
    <<"GET__tools_info", "POST__tools_find", "POST__tools_resolve_symbol",
      "POST__tools_normalize_list", "POST__tools_validate_panel">>

(***************************************************************************)
(* The requests each scenario sends, and the fixed scenario list.          *)
(***************************************************************************)
InitializeRequest(clientName, clientVersion) ==
    JObj(<<Item("jsonrpc", JStr("2.0")), Item("id", JNum(1)),
           Item("method", JStr("initialize")),
           Item("params", JObj(<<
               Item("protocolVersion", JStr("2024-11-05")),
               Item("capabilities", JObj(<< >>)),
               Item("clientInfo", JObj(<<Item("name", JStr(clientName)),
                                         Item("version", JStr(clientVersion))>>))
           >>))>>)
ListRequest(method) ==
    JObj(<<Item("jsonrpc", JStr("2.0")), Item("id", JNum(2)),
           Item("method", JStr(method))>>)
CallRequest(tool_name, arguments) ==
    JObj(<<Item("jsonrpc", JStr("2.0")), Item("id", JNum(2)),
           Item("method", JStr("tools/call")),
           Item("params", JObj(<<Item("name", JStr(tool_name)),
                                 Item("arguments", arguments)>>))>>)
InvalidRequest ==
    JObj(<<Item("jsonrpc", JStr("2.0")), Item("id", JNum(99)),
           Item("method", JStr("invalid/method")),
           Item("params", JObj(<< >>))>>)
Texts(s) == JList([k \in 1..Len(s) |-> JStr(s[k])])
Scenario(fn, tool, arguments) ==
    [fn |-> fn, tool |-> tool, arguments |-> arguments]
\* run_all_tests: the list `tests`
tests ==
    <<Scenario("test_initialize", "", JNull),
      Scenario("test_tools_list", "", JNull),
      Scenario("test_resources_list", "", JNull),
      Scenario("test_call_tool", ToolNames[1], JObj(<< >>)),
      Scenario("test_call_tool", ToolNames[2],
               JObj(<<Item("query", JStr("BRCA"))>>)),
      Scenario("test_call_tool", ToolNames[3],
               JObj(<<Item("symbol", JStr("TP53"))>>)),
      Scenario("test_call_tool", ToolNames[4],
               JObj(<<Item("symbols", Texts(<<"BRCA1", "TP53", "EGFR">>))>>)),
      Scenario("test_call_tool", ToolNames[5],
               JObj(<<Item("items", Texts(<<"BRCA1", "TP53", "INVALID">>))>>)),
      Scenario("test_invalid_method", "", JNull)>>
\* the messages a scenario hands to its session call
Messages(test) ==
    CASE test.fn = "test_initialize" ->
            <<InitializeRequest("test-client", "1.0.0")>>
      [] test.fn = "test_tools_list" ->
            <<InitializeRequest("test", "1.0"), ListRequest("tools/list")>>
      [] test.fn = "test_resources_list" ->
            <<InitializeRequest("test", "1.0"), ListRequest("resources/list")>>
      [] test.fn = "test_call_tool" ->
            <<InitializeRequest("test", "1.0"),
              CallRequest(test.tool, test.arguments)>>
      [] test.fn = "test_invalid_method" -> <<InvalidRequest>>
\* the session call a scenario uses
UsesSendMessage(test) == test.fn \in {"test_initialize", "test_invalid_method"}
\* input_text as it would be without the final newline
input_text_unterminated(messages) ==
    LET text == join_lines([k \in 1..Len(messages) |->
                                json_dumps(messages[k])], 1) IN
    SubSeq(text, 1, Len(text) - 1)
\* "\n".join(json.dumps(msg) for msg in messages) + "\n"
input_text(messages) ==
    join_lines([k \in 1..Len(messages) |-> json_dumps(messages[k])], 1)
\* the scenario function applied to what its session call returned
apply_test(test, one, all) ==
    CASE test.fn = "test_initialize" -> test_initialize(one)
      [] test.fn = "test_tools_list" -> test_tools_list(all)
      [] test.fn = "test_resources_list" -> test_resources_list(all)
      [] test.fn = "test_call_tool" -> test_call_tool(test.tool, all)
      [] test.fn = "test_invalid_method" -> test_invalid_method(one)
\* run_test as it would be with the session calls lacking their except
\* branches
run_test_uncaught(test, ok, stdout) ==
    IF ok
    THEN IF UsesSendMessage(test)
         THEN apply_test(test, first_response(stdout), << >>)
         ELSE apply_test(test, None, extract_responses(stdout))
    ELSE Raised("SubprocessError")
\* `ok` is false when the session call took one of its except branches and
\* returned None (send_message) or [] (send_sequence)
run_test(test, ok, stdout) ==
    IF ok
    THEN IF UsesSendMessage(test)
         THEN apply_test(test, first_response(stdout), << >>)
         ELSE apply_test(test, None, extract_responses(stdout))
    ELSE apply_test(test, None, << >>)

(***************************************************************************)
(* The server of the full run: it answers the requests it received, in     *)
(* order, each with a result, an error object or a malformed response, and *)
(* may fall silent, hang or exit at any point.                             *)
(***************************************************************************)
CallOk == Rpc(2, Result(JObj(<<Item("content", JList(<< >>))>>)))
InitError == Rpc(1, Error(BadArgs))
\* the answers to the k-th request of the batch; the handshake of a
\* two-request batch is answered well
Replies(messages, k) ==
    LET method == Get(messages[k], "method").v IN
    CASE method = "initialize" ->
            IF Len(messages) = 1 THEN {InitOk, InitError, ResultNumber}
            ELSE {InitOk}
      [] method = "tools/list" -> {ToolsOk, CallError, ResultNull}
      [] method = "resources/list" -> {ResourcesOk, CallError, ResultNull}
      [] method = "tools/call" -> {CallOk, CallError, ErrorText}
      [] method = "invalid/method" -> {NotFound, CallOk, ErrorText}

(***************************************************************************)
(* The schema rules of the validator.  An issue is the f-string the rule   *)
(* appends: its leading mark, the entry (and property) it names, its       *)
(* fixed text and the value formatted into it.  A rule call yields the     *)
(* list it returns and its argument as the call leaves it, or raises.      *)
(***************************************************************************)
Critical == "critical"    \* the mark of a blocking issue, a cross
Warning == "warning"      \* the mark of an advisory issue, a warning sign
Issue(mark, subject, text, arg) ==
    [mark |-> mark, subject |-> subject, text |-> text, arg |-> arg]
\* i.startswith(mark): every issue begins with its mark
startswith(issue, mark) == issue.mark = mark
Issues(issues, arg) ==
    [kind |-> "issues", issues |-> issues, exc |-> "", arg |-> arg]
RuleRaised(exc, arg) ==
    [kind |-> "raise", issues |-> << >>, exc |-> exc, arg |-> arg]
\* type(x).__name__
py_type(x) ==
    CASE x.t = "str" -> "str"
      [] x.t = "num" -> "int"
      [] x.t = "null" -> "NoneType"
      [] x.t = "list" -> "list"
      [] x.t = "obj" -> "dict"
\* `key in x` raises TypeError for these
not_iterable(x) == x.t \in {"num", "null"}
\* entry.get("name", "unknown"), formatted into the issue
name_of(entry, key) == py_str(GetOr(entry, key, JStr("unknown")))

\* the description check of a tool and of a prompt
description_issues(entry, subject, arg_of) ==
    IF HasKey(entry, "description") /\ Get(entry, "description").t # "str"
    THEN <<Issue(Critical, subject, "'description' must be a string",
                 arg_of)>>
    ELSE << >>

\* default_issues as it would be with every non-empty list taken for a
\* malformed one
default_issues_any_list(tool_name, prop_name, prop_def) ==
    IF ~HasKey(prop_def, "default") THEN << >>
    ELSE LET default == Get(prop_def, "default") IN
         IF default.t = "list" /\ Len(default.v) = 0
         THEN <<Issue(Warning, <<tool_name, prop_name>>,
                      "'default' is empty array []", "")>>
         ELSE IF default.t = "list" /\ Len(default.v) > 0
         THEN <<Issue(Critical, <<tool_name, prop_name>>,
                      "'default' contains malformed array", py_str(default))>>
         ELSE << >>
\* the default check of one property definition (a dict)
default_issues(tool_name, prop_name, prop_def) ==
    IF ~HasKey(prop_def, "default") THEN << >>
    ELSE LET default == Get(prop_def, "default") IN
         IF default.t = "list" /\ Len(default.v) = 0
         THEN <<Issue(Warning, <<tool_name, prop_name>>,
                      "'default' is empty array []", "")>>
         ELSE IF default.t = "list" /\ Len(default.v) > 0
                 /\ default.v[1] = JStr("c")
         THEN <<Issue(Critical, <<tool_name, prop_name>>,
                      "'default' contains malformed array", py_str(default))>>
         ELSE << >>

\* what a stretch of a rule yields: the issues it appended, or the name of
\* the exception it raised
Found(issues) == [exc |-> "", issues |-> issues]
Exc(name) == [exc |-> name, issues |-> << >>]
\* the body of the loop over schema["properties"].items() for one item
property_issues(tool_name, prop_name, prop_def) ==
    IF not_iterable(prop_def) THEN Exc("TypeError")
    ELSE IF prop_def.t # "obj"
    THEN IF py_in("default", prop_def) \/ py_in("description", prop_def)
         THEN Exc("TypeError") ELSE Found(<< >>)
    ELSE Found(default_issues(tool_name, prop_name, prop_def)
               \o description_issues(prop_def, <<tool_name, prop_name>>, ""))
\* the loop over the items from the i-th on
RECURSIVE properties_issues(_, _, _, _)
properties_step(tool_name, items, i, acc, found) ==
    IF found.exc # "" THEN found
    ELSE properties_issues(tool_name, items, i + 1, acc \o found.issues)
properties_issues(tool_name, items, i, acc) ==
    IF i > Len(items) THEN Found(acc)
    ELSE properties_step(tool_name, items, i, acc,
             property_issues(tool_name, items[i].k, items[i].v))
\* the inputSchema check
schema_issues(tool_name, schema) ==
    IF not_iterable(schema) THEN Exc("TypeError")
    ELSE IF ~py_in("properties", schema) THEN Found(<< >>)
    ELSE IF schema.t # "obj" THEN Exc("TypeError")
    ELSE IF Get(schema, "properties").t # "obj" THEN Exc("AttributeError")
    ELSE properties_issues(tool_name, Get(schema, "properties").v, 1, << >>)
tool_outcome(tool, first, rest) ==
    IF rest.exc # "" THEN RuleRaised(rest.exc, tool)
    ELSE Issues(first \o rest.issues, tool)
validate_tool_schema(tool) ==
    IF tool.t # "obj" THEN RuleRaised("AttributeError", tool)
    ELSE tool_outcome(tool,
             description_issues(tool, <<name_of(tool, "name")>>,
                 IF HasKey(tool, "description")
                 THEN py_type(Get(tool, "description")) ELSE ""),
             IF HasKey(tool, "inputSchema")
             THEN schema_issues(name_of(tool, "name"),
                                Get(tool, "inputSchema"))
             ELSE Found(<< >>))

validate_prompt_schema(prompt) ==
    IF prompt.t # "obj" THEN RuleRaised("AttributeError", prompt)
    ELSE Issues(
             description_issues(prompt,
                 <<"Prompt", name_of(prompt, "name")>>, "")
             \o (IF HasKey(prompt, "arguments")
                    /\ Get(prompt, "arguments").t # "list"
                 THEN <<Issue(Critical, <<"Prompt", name_of(prompt, "name")>>,
                              "'arguments' must be an array", "")>>
                 ELSE << >>),
             prompt)

required_fields == <<"uri", "name", "mimeType">>
\* field_issues as it would be without the text check
field_issues_presence_only(resource_uri, resource, field) ==
    IF ~HasKey(resource, field)
    THEN <<Issue(Critical, <<"Resource", resource_uri>>,
                 "missing required field", field)>>
    ELSE << >>
\* the body of the loop over required_fields
field_issues(resource_uri, resource, field) ==
    IF ~HasKey(resource, field)
    THEN <<Issue(Critical, <<"Resource", resource_uri>>,
                 "missing required field", field)>>
    ELSE IF Get(resource, field).t # "str"
    THEN <<Issue(Critical, <<"Resource", resource_uri>>,
                 "must be a string", field)>>
    ELSE << >>
\* validate_resource_schema as it would be if it filled in the fields it
\* found missing
validate_resource_schema_filling(resource) ==
    IF resource.t # "obj" THEN RuleRaised("AttributeError", resource)
    ELSE LET uri == name_of(resource, "uri")
             fill(r, f) == IF HasKey(r, f) THEN r
                           ELSE JObj(Append(r.v, Item(f, JStr("")))) IN
         Issues(field_issues(uri, resource, required_fields[1])
                \o field_issues(uri, resource, required_fields[2])
                \o field_issues(uri, resource, required_fields[3]),
                fill(fill(fill(resource, required_fields[1]),
                          required_fields[2]), required_fields[3]))
validate_resource_schema(resource) ==
    IF resource.t # "obj" THEN RuleRaised("AttributeError", resource)
    ELSE LET uri == name_of(resource, "uri") IN
         Issues(field_issues(uri, resource, required_fields[1])
                \o field_issues(uri, resource, required_fields[2])
                \o field_issues(uri, resource, required_fields[3]),
                resource)

(***************************************************************************)
(* State.                                                                  *)
(***************************************************************************)
VARIABLES
    captured,    \* the stdout text communicate() returned
    called,      \* the session call or scenario function applied to it
    responses,   \* what send_sequence returned
    response,    \* what send_message returned
    capabilities,\* what get_mcp_capabilities returned
    verdict,     \* what the scenario function returned (or that it raised)
    pc,          \* main(): "loop" in run_all_tests, "communicate", "exited";
                 \* "idle" while no call is made on the tester
    timeout,     \* self.timeout, in clock ticks
    n_test,      \* enumerate(tests, 1): the scenario to run next
    results,     \* self.results
    child,       \* the subprocess of the current or last session call
    comm,        \* process.communicate(): the call's own state
    ret,         \* what run_all_tests returned: <<passed, total>>
    exitStatus,  \* the process exit status, -1 while running
    session,     \* how the session calls end: the one session of the
                 \* validator, the sessions of the runner's invocation
    at,          \* validator: the position of main()
    k_entry,     \* validator: the entry the current loop evaluates next
    all_issues,  \* validator: all_issues
    probe,       \* the last rule call: its entry, its outcome, and the
                 \* outcome of the same rule on the entry as the call left it
    uncaught,    \* validator: the exception that ended main(), or "none"
    checked,     \* validator: the number of entries whose rule returned
    invocations  \* the calls of run_all_tests made on the tester
scanVars == <<captured, called, responses, response, capabilities, verdict>>
runVars == <<pc, timeout, n_test, results, child, comm, ret, exitStatus>>
valVars == <<session, at, k_entry, all_issues, probe, uncaught, checked>>
otherVars == <<valVars, invocations>>
vars == <<scanVars, runVars, otherVars>>

NoVerdict == TestResult("", FALSE, Msg("", ""), None)
NoChild == [st |-> "none", stdin |-> "none", received |-> << >>, out |-> << >>]
NoComm ==
    [pipe |-> "none", elapsed |-> 0, timedOut |-> FALSE, fault |-> FALSE,
     messages |-> << >>, input |-> << >>]
NoReturn == <<-1, -1>>

ScanIdle ==
    /\ called = "none"
    /\ responses = << >>
    /\ response = None
    /\ capabilities = EmptyCapabilities
    /\ verdict = NoVerdict
NoProbe == [rule |-> "none", entry |-> None, outcome |-> Issues(<< >>, None),
            again |-> Issues(<< >>, None)]
OtherIdle ==
    /\ session = "none"
    /\ at = "idle"
    /\ k_entry = 1
    /\ all_issues = << >>
    /\ probe = NoProbe
    /\ uncaught = "none"
    /\ checked = 0
    /\ invocations = 0
RunIdle ==
    /\ pc = "loop"
    /\ n_test = 1
    /\ results = << >>
    /\ child = NoChild
    /\ comm = NoComm
    /\ ret = NoReturn
    /\ exitStatus = -1

(***************************************************************************)
(* The functions applied to a captured output.                             *)
(***************************************************************************)
ScanInit ==
    /\ captured \in Outputs(MaxLines)
    /\ ScanIdle
    /\ RunIdle
    /\ OtherIdle
    /\ timeout = 0

\* send_sequence returns, lines 107-117
SendSequenceReturns ==
    /\ called = "none"
    /\ called' = "send_sequence"
    /\ responses' = extract_responses(captured)
    /\ UNCHANGED <<captured, response, capabilities, verdict,
                   runVars, otherVars>>
\* send_message returns, lines 60-71
SendMessageReturns ==
    /\ called = "none"
    /\ called' = "send_message"
    /\ response' = first_response(captured)
    /\ UNCHANGED <<captured, responses, capabilities, verdict,
                   runVars, otherVars>>
\* get_mcp_capabilities returns, lines 114-134
GetCapabilitiesReturns ==
    /\ called = "none"
    /\ called' = "get_mcp_capabilities"
    /\ capabilities' = capabilities_of(captured)
    /\ UNCHANGED <<captured, responses, response, verdict,
                   runVars, otherVars>>
Initialize ==
    /\ called = "send_message"
    /\ called' = "test_initialize"
    /\ verdict' = test_initialize(response)
    /\ UNCHANGED <<captured, responses, response, capabilities,
                   runVars, otherVars>>
InvalidMethod ==
    /\ called = "send_message"
    /\ called' = "test_invalid_method"
    /\ verdict' = test_invalid_method(response)
    /\ UNCHANGED <<captured, responses, response, capabilities,
                   runVars, otherVars>>
ListTools ==
    /\ called = "send_sequence"
    /\ called' = "test_tools_list"
    /\ verdict' = test_tools_list(responses)
    /\ UNCHANGED <<captured, responses, response, capabilities,
                   runVars, otherVars>>
ListResources ==
    /\ called = "send_sequence"
    /\ called' = "test_resources_list"
    /\ verdict' = test_resources_list(responses)
    /\ UNCHANGED <<captured, responses, response, capabilities,
                   runVars, otherVars>>
CallTool ==
    /\ called = "send_sequence"
    /\ called' = "test_call_tool"
    /\ \E n \in 1..Len(ToolNames) :
          verdict' = test_call_tool(ToolNames[n], responses)
    /\ UNCHANGED <<captured, responses, response, capabilities,
                   runVars, otherVars>>

ScanNext ==
    \/ SendSequenceReturns
    \/ SendMessageReturns
    \/ GetCapabilitiesReturns
    \/ Initialize
    \/ InvalidMethod
    \/ ListTools
    \/ ListResources
    \/ CallTool
SpecScan == ScanInit /\ [][ScanNext]_vars

(***************************************************************************)
(* The full run: main() -> run_all_tests() -> one session per scenario.    *)
(* Time passes only while communicate() is blocked waiting for the child.  *)
(***************************************************************************)
Init ==
    /\ captured = << >>
    /\ ScanIdle
    /\ RunIdle
    /\ OtherIdle
    /\ timeout \in 0..MaxTimeout

\* the scenario's session call has returned: the scenario function builds
\* its TestResult, run_all_tests appends it and moves on; a scenario that
\* raises ends run_all_tests and main() with a traceback (exit status 1)
Returned(result) ==
    IF result.kind = "raise"
    THEN /\ pc' = "exited"
         /\ exitStatus' = 1
         /\ UNCHANGED <<n_test, results, ret>>
    ELSE /\ pc' = "loop"
         /\ results' = Append(results, result)
         /\ n_test' = n_test + 1
         /\ UNCHANGED <<ret, exitStatus>>
SessionReturns(ok, stdout) == Returned(run_test(tests[n_test], ok, stdout))

\* subprocess.Popen(...) starts the child; communicate() begins
Popen ==
    /\ pc = "loop"
    /\ n_test <= Len(tests)
    /\ pc' = "communicate"
    /\ child' = [st |-> "running", stdin |-> "open",
                 received |-> << >>, out |-> << >>]
    /\ comm' = [pipe |-> "pending", elapsed |-> 0, timedOut |-> FALSE,
                fault |-> FALSE,
                messages |-> Messages(tests[n_test]),
                input |-> input_text(Messages(tests[n_test]))]
    /\ UNCHANGED <<timeout, n_test, results, ret, exitStatus,
                   scanVars, otherVars>>
\* subprocess.Popen(...) raises (no docker, no permission): except Exception
PopenFails ==
    /\ pc = "loop"
    /\ n_test <= Len(tests)
    /\ child' = NoChild
    /\ comm' = NoComm
    /\ SessionReturns(FALSE, << >>)
    /\ UNCHANGED <<timeout, scanVars, otherVars>>
\* communicate(): the input is written to the child's stdin and stdin is
\* closed; writing to a child that has exited is a BrokenPipeError, which
\* communicate() swallows, closing stdin
CommunicateWrites ==
    /\ pc = "communicate"
    /\ comm.pipe = "pending"
    /\ comm.elapsed < timeout
    /\ IF child.st = "running"
       THEN /\ child' = [child EXCEPT !.received = comm.input,
                                      !.stdin = "closed"]
            /\ comm' = [comm EXCEPT !.pipe = "written"]
       ELSE /\ child' = [child EXCEPT !.stdin = "closed"]
            /\ comm' = [comm EXCEPT !.pipe = "broken"]
    /\ UNCHANGED <<pc, timeout, n_test, results, ret, exitStatus,
                   scanVars, otherVars>>
\* a clock tick while communicate() waits for output or for the exit
Tick ==
    /\ pc = "communicate"
    /\ comm.pipe # "pending"
    /\ comm.elapsed < timeout
    /\ comm' = [comm EXCEPT !.elapsed = @ + 1]
    /\ UNCHANGED <<pc, timeout, n_test, results, child, ret, exitStatus,
                   scanVars, otherVars>>
\* the server prints its answer to the next request it has received
ServerAnswers ==
    /\ pc = "communicate"
    /\ child.st = "running"
    /\ child.received # << >>
    /\ LET k == Len(split_lines(child.out)) IN
       /\ k <= Len(comm.messages)
       /\ \E reply \in Replies(comm.messages, k) :
             child' = [child EXCEPT !.out = @ \o json_dumps(reply) \o <<NL>>]
    /\ UNCHANGED <<pc, timeout, n_test, results, comm, ret, exitStatus,
                   scanVars, otherVars>>
\* the child exits (its pipes reach end of file); it is not yet waited for
ServerExits ==
    /\ pc = "communicate"
    /\ child.st = "running"
    /\ child' = [child EXCEPT !.st = "exited"]
    /\ UNCHANGED <<pc, timeout, n_test, results, comm, ret, exitStatus,
                   scanVars, otherVars>>
\* communicate() returns: the pipes are at end of file, wait() reaps the
\* child, and the session call scans the captured stdout
CommunicateReturns ==
    /\ pc = "communicate"
    /\ comm.pipe # "pending"
    /\ child.st = "exited"
    /\ child' = [child EXCEPT !.st = "reaped"]
    /\ SessionReturns(TRUE, child.out)
    /\ UNCHANGED <<timeout, comm, scanVars, otherVars>>
\* communicate() raises TimeoutExpired: the except branch returns None / []
\* and nothing kills or waits for the child
TimeoutExpired ==
    /\ pc = "communicate"
    /\ comm.elapsed >= timeout
    /\ comm' = [comm EXCEPT !.timedOut = TRUE]
    /\ SessionReturns(FALSE, << >>)
    /\ UNCHANGED <<timeout, child, scanVars, otherVars>>
\* communicate() raises another exception after the write: a read fault
\* while the child runs (nothing waits for the child), or the captured
\* bytes do not decode as text, which is found after wait() has reaped the
\* child; the except Exception branch returns None / []
CommunicateRaises ==
    /\ pc = "communicate"
    /\ comm.pipe # "pending"
    /\ \E st \in (IF child.st = "exited" THEN {"exited", "reaped"}
                   ELSE {child.st}) :
          child' = [child EXCEPT !.st = st]
    /\ comm' = [comm EXCEPT !.fault = TRUE]
    /\ SessionReturns(FALSE, << >>)
    /\ UNCHANGED <<timeout, scanVars, otherVars>>
\* run_all_tests returns (passed, total); main() exits 0 iff they are equal
Summary ==
    /\ pc = "loop"
    /\ n_test > Len(tests)
    /\ LET passed == Cardinality({k \in 1..Len(results) : results[k].passed})
           total == Len(results) IN
       /\ ret' = <<passed, total>>
       /\ exitStatus' = IF passed = total THEN 0 ELSE 1
    /\ pc' = "exited"
    /\ UNCHANGED <<timeout, n_test, results, child, comm,
                   scanVars, otherVars>>

Next ==
    \/ Popen
    \/ PopenFails
    \/ CommunicateWrites
    \/ Tick
    \/ ServerAnswers
    \/ ServerExits
    \/ CommunicateReturns
    \/ TimeoutExpired
    \/ CommunicateRaises
    \/ Summary
Spec == Init /\ [][Next]_vars

(***************************************************************************)
(* The capability entries a server may advertise to the validator.         *)
(***************************************************************************)
Prop(name, members) == Item(name, JObj(members))
Tool(name, props) ==
    JObj(<<Item("name", JStr(name)),
           Item("inputSchema", JObj(<<Item("properties", JObj(props))>>))>>)
Described == <<Item("description", JStr("text"))>>
Default(val) == <<Item("default", val)>>
ToolClean == Tool("find", <<Prop("query", Described)>>)
ToolEmptyDefault ==
    Tool("normalize",
         <<Prop("query", Described), Prop("fields", Default(JList(<< >>)))>>)
ToolVectorDefault ==
    Tool("resolve",
         <<Prop("fields", Default(Texts(<<"c", "symbol">>))),
           Prop("mode", Default(JNull))>>)
ToolOtherDefaults ==
    Tool("panel",
         <<Prop("fields", Default(Texts(<<"symbol">>))),
           Prop("mode", Default(JStr("lenient"))),
           Prop("flags", Default(JList(<< >>))
                         \o <<Item("description", JNum(5))>>)>>)
ToolBadDescription ==
    JObj(<<Item("name", JStr("info")), Item("description", JNum(5))>>)
ToolNameless ==
    JObj(<<Item("inputSchema", JObj(<<Item("properties",
               JObj(<<Prop("fields", Default(Texts(<<"c">>)))>>))>>))>>)
ToolSchemaText ==
    JObj(<<Item("name", JStr("stats")), Item("inputSchema", JStr("object"))>>)
\* entries whose advertised shape is malformed
ToolSchemaNull ==
    JObj(<<Item("name", JStr("stats")), Item("inputSchema", JNull)>>)
ToolPropertiesList ==
    JObj(<<Item("name", JStr("stats")),
           Item("inputSchema", JObj(<<Item("properties", JList(<< >>))>>))>>)
ToolPropertyNull == Tool("stats", <<Item("fields", JNull)>>)
ToolText == JStr("find")
ToolEntries ==
    {ToolClean, ToolEmptyDefault, ToolVectorDefault, ToolOtherDefaults,
     ToolBadDescription, ToolNameless, ToolSchemaText, ToolSchemaNull,
     ToolPropertiesList, ToolPropertyNull, ToolText}

PromptClean ==
    JObj(<<Item("name", JStr("gene")), Item("description", JStr("text")),
           Item("arguments", JList(<< >>))>>)
PromptBadDescription ==
    JObj(<<Item("name", JStr("gene")), Item("description", JNull)>>)
PromptBadArguments ==
    JObj(<<Item("name", JStr("panel")), Item("arguments", JObj(<< >>))>>)
PromptText == JStr("gene")
PromptEntries ==
    {PromptClean, PromptBadDescription, PromptBadArguments, PromptText}

Resource(members) == JObj(members)
Uri == <<Item("uri", JStr("hgnc://stats"))>>
Name == <<Item("name", JStr("stats"))>>
Mime == <<Item("mimeType", JStr("text/plain"))>>
ResourceClean == Resource(Uri \o Name \o Mime)
ResourceNoMime == Resource(Uri \o Name)
ResourceNoUri == Resource(<<Item("name", JNum(5))>> \o Mime)
ResourceNullMime == Resource(Uri \o Name \o <<Item("mimeType", JNull)>>)
ResourceEmpty == Resource(<< >>)
ResourceNull == JNull
ResourceEntries ==
    {ResourceClean, ResourceNoMime, ResourceNoUri, ResourceNullMime,
     ResourceEmpty, ResourceNull}

\* every list of at most n entries
RECURSIVE ListsOf(_, _)
ListsOf(entries, n) ==
    IF n = 0 THEN {<< >>}
    ELSE LET shorter == ListsOf(entries, n - 1) IN
         shorter \cup {Append(l, e) : l \in shorter, e \in entries}
ShortTools == {<< >>, <<ToolBadDescription>>}
ShortPrompts == {<< >>, <<PromptBadArguments>>}
ShortResources == {<< >>, <<ResourceNoMime>>}
\* the advertised lists: one of them drawn from all its lists of at most
\* MaxEntries entries, the other two from the short ones
Snapshot(tools, prompts, resources) ==
    [tools |-> tools, prompts |-> prompts, resources |-> resources]
Snapshots ==
    {Snapshot(t, p, r) : t \in ListsOf(ToolEntries, MaxEntries),
                         p \in ShortPrompts, r \in ShortResources}
    \cup {Snapshot(t, p, r) : t \in ShortTools,
                              p \in ListsOf(PromptEntries, MaxEntries),
                              r \in ShortResources}
    \cup {Snapshot(t, p, r) : t \in ShortTools, p \in ShortPrompts,
                              r \in ListsOf(ResourceEntries, MaxEntries)}

\* the server's lines.  A request is answered with its list, with an
\* error, with a result that breaks the shape, or not at all (<< >>).
ListReply(id, key, entries) ==
    Rpc(id, Result(JObj(<<Item(key, JList(entries))>>)))
ToolsReplies ==
    {<<ListReply(2, "tools", <<ToolEmptyDefault>>)>>,
     <<Rpc(2, Error(BadArgs))>>, <<ResultNoList>>, <<ToolsNull>>,
     <<ResultNull>>, << >>}
PromptsReplies ==
    {<<ListReply(3, "prompts", <<PromptBadArguments>>)>>,
     <<Rpc(3, Error(BadArgs))>>, << >>}
ResourcesReplies ==
    {<<ListReply(4, "resources", <<ResourceNoMime>>)>>,
     <<Rpc(4, Error(BadArgs))>>, << >>}
Orders ==
    {<<1, 2, 3>>, <<1, 3, 2>>, <<2, 1, 3>>, <<2, 3, 1>>, <<3, 1, 2>>,
     <<3, 2, 1>>}
Noise == {<< >>, <<LogText>>, <<json_dumps(LogNested)>>}
TextOf(lines) == join_lines(lines, 1)
Dumped(objects) == [k \in 1..Len(objects) |-> json_dumps(objects[k])]
\* the output of a server that answers in request order
InOrder(snapshot) ==
    TextOf(Dumped(<<InitOk,
                    ListReply(2, "tools", snapshot.tools),
                    ListReply(3, "prompts", snapshot.prompts),
                    ListReply(4, "resources", snapshot.resources)>>))
\* the output of a server that answers the list requests in any order,
\* with a line of noise after its first answer
Shuffled(replies, order, noise) ==
    TextOf(Dumped(<<InitOk>> \o replies[order[1]]) \o noise
           \o Dumped(replies[order[2]] \o replies[order[3]]))
ValidatorOutputs ==
    {InOrder(snapshot) : snapshot \in Snapshots}
    \cup {Shuffled(<<t, p, r>>, order, noise) :
             t \in ToolsReplies, p \in PromptsReplies,
             r \in ResourcesReplies, order \in Orders, noise \in Noise}

(***************************************************************************)
(* The validator: main() of validate-mcp-schema.py.                        *)
(***************************************************************************)
\* get_mcp_capabilities as it would be if its except branch returned None
get_mcp_capabilities_none(how, stdout) ==
    IF how = "returns" THEN capabilities_of(stdout) ELSE None
\* `how` is how the session ended: communicate() returned the stdout, or
\* Popen or communicate() raised and the except branch ran
get_mcp_capabilities(how, stdout) ==
    IF how = "returns" THEN capabilities_of(stdout) ELSE EmptyCapabilities
\* len(x) is defined
sized(x) == x.t \in {"list", "obj", "str"}
\* what `for entry in x` yields: the elements of a list, the keys of a dict
entries_of(x) ==
    CASE x.t = "list" -> x.v
      [] x.t = "obj" -> [i \in 1..Len(x.v) |-> JStr(x.v[i].k)]
\* the list with the object its k-th entry has become
put(x, k, entry) ==
    IF x.t = "list" THEN JList([x.v EXCEPT ![k] = entry]) ELSE x

SessionEnds == {"popen_fails", "timeout", "fault"}
ValInit ==
    /\ \/ session = "returns" /\ captured \in ValidatorOutputs
       \/ session \in SessionEnds /\ captured = << >>
    /\ called = "none"
    /\ responses = << >>
    /\ response = None
    /\ capabilities = EmptyCapabilities
    /\ verdict = NoVerdict
    /\ RunIdle
    /\ timeout = 30
    /\ at = "start"
    /\ k_entry = 1
    /\ all_issues = << >>
    /\ probe = NoProbe
    /\ uncaught = "none"
    /\ checked = 0
    /\ invocations = 0

\* an exception leaves main(): the traceback, exit status 1
Uncaught(exc) ==
    /\ at' = "exited"
    /\ uncaught' = exc
    /\ exitStatus' = 1
    /\ UNCHANGED <<k_entry, all_issues, checked>>
\* main() enters the loop over capabilities[key] after printing its length
Begin(list, section) ==
    IF ~sized(list) THEN Uncaught("TypeError")
    ELSE /\ at' = section
         /\ k_entry' = 1
         /\ UNCHANGED <<all_issues, uncaught, checked, exitStatus>>
\* one pass of a loop of main(): issues = rule(entry); all_issues.extend
Validated(key, entry, outcome, again) ==
    /\ probe' = [rule |-> key, entry |-> entry, outcome |-> outcome,
                 again |-> again]
    /\ capabilities' = [capabilities EXCEPT
                           ![key] = put(@, k_entry, outcome.arg)]
    /\ IF outcome.kind = "raise"
       THEN Uncaught(outcome.exc)
       ELSE /\ all_issues' = all_issues \o outcome.issues
            /\ k_entry' = k_entry + 1
            /\ checked' = checked + 1
            /\ UNCHANGED <<at, uncaught, exitStatus>>
    /\ UNCHANGED <<captured, called, responses, response, verdict, session,
                   pc, timeout, n_test, results, child, comm, ret,
                   invocations>>
ValFrame ==
    UNCHANGED <<captured, called, responses, response, verdict, session,
                probe, pc, timeout, n_test, results, child, comm, ret,
                invocations>>

\* lines 161-166
Entered(caps) ==
    /\ capabilities' = caps
    /\ IF caps = None THEN Uncaught("TypeError")
       ELSE Begin(caps.tools, "tools")
    /\ ValFrame
GetCapabilities ==
    /\ at = "start"
    /\ Entered(get_mcp_capabilities(session, captured))
\* lines 167-169
ToolChecked(tool, outcome) ==
    Validated("tools", tool, outcome, validate_tool_schema(outcome.arg))
ValidateTool ==
    /\ at = "tools"
    /\ k_entry <= Len(entries_of(capabilities.tools))
    /\ ToolChecked(entries_of(capabilities.tools)[k_entry],
           validate_tool_schema(entries_of(capabilities.tools)[k_entry]))
\* lines 174-180
BeginPrompts ==
    /\ at = "tools"
    /\ k_entry > Len(entries_of(capabilities.tools))
    /\ Begin(capabilities.prompts, "prompts")
    /\ UNCHANGED capabilities
    /\ ValFrame
\* lines 181-183
PromptChecked(prompt, outcome) ==
    Validated("prompts", prompt, outcome, validate_prompt_schema(outcome.arg))
ValidatePrompt ==
    /\ at = "prompts"
    /\ k_entry <= Len(entries_of(capabilities.prompts))
    /\ PromptChecked(entries_of(capabilities.prompts)[k_entry],
           validate_prompt_schema(entries_of(capabilities.prompts)[k_entry]))
\* lines 188-194
BeginResources ==
    /\ at = "prompts"
    /\ k_entry > Len(entries_of(capabilities.prompts))
    /\ Begin(capabilities.resources, "resources")
    /\ UNCHANGED capabilities
    /\ ValFrame
\* lines 195-197
ResourceChecked(resource, outcome) ==
    Validated("resources", resource, outcome,
              validate_resource_schema(outcome.arg))
ValidateResource ==
    /\ at = "resources"
    /\ k_entry <= Len(entries_of(capabilities.resources))
    /\ ResourceChecked(entries_of(capabilities.resources)[k_entry],
           validate_resource_schema(
               entries_of(capabilities.resources)[k_entry]))
\* lines 202-232: sys.exit(1) iff an issue starts with the critical mark
critical_issues ==
    SelectSeq(all_issues, LAMBDA i : startswith(i, Critical))
warnings == SelectSeq(all_issues, LAMBDA i : startswith(i, Warning))
ValidatorSummary ==
    /\ at = "resources"
    /\ k_entry > Len(entries_of(capabilities.resources))
    /\ at' = "exited"
    /\ exitStatus' = IF critical_issues # << >> THEN 1 ELSE 0
    /\ UNCHANGED <<capabilities, k_entry, all_issues, uncaught, checked>>
    /\ ValFrame

ValNext ==
    \/ GetCapabilities
    \/ ValidateTool
    \/ BeginPrompts
    \/ ValidatePrompt
    \/ BeginResources
    \/ ValidateResource
    \/ ValidatorSummary
SpecValidate == ValInit /\ [][ValNext]_vars

(***************************************************************************)
(* Claims about the output scan and the scenario functions (SpecScan).     *)
(***************************************************************************)
\* every line of the captured output that the scan recovers, as send_sequence does
Recovered == extract_responses(captured)
\* the lines that decode, as JSON, to an object with the top-level member
\* jsonrpc, in output order: what "a JSON-RPC line" means, independent of
\* the scan's prefilter
RECURSIVE tagged_lines(_, _)
tagged_lines(lines, i) ==
    IF i > Len(lines) THEN << >>
    ELSE LET r == json_loads(lines[i]) IN
         (IF r.ok /\ r.val.t = "obj" /\ HasKey(r.val, "jsonrpc")
          THEN <<r.val>> ELSE << >>)
         \o tagged_lines(lines, i + 1)
TaggedLines == tagged_lines(split_lines(captured), 1)
TwoRequestScenarios ==
    {"test_tools_list", "test_resources_list", "test_call_tool"}
Scenarios ==
    TwoRequestScenarios \cup {"test_initialize", "test_invalid_method"}
IdIs(r, id) == HasKey(r, "id") /\ Get(r, "id") = JNum(id)
IsBoth(r) == HasKey(r, "result") /\ HasKey(r, "error")

\* C2 (as claimed): send_sequence returns exactly the JSON-RPC lines of the
\* output, in order, and every returned element carries the protocol tag
\* jsonrpc as a top-level member.
C2_ExactlyTaggedLines ==
    called = "send_sequence" =>
        /\ \A i \in 1..Len(responses) : HasKey(responses[i], "jsonrpc")
        /\ responses = TaggedLines

\* C3 (as claimed): in the two-request scenarios the verdict for the
\* follow-up request is computed from the recovered response whose id is 2,
\* in whichever order the two well-formed responses to id 1 and id 2 were
\* emitted.
C3_ByCorrelationId ==
    (/\ called \in TwoRequestScenarios
     /\ verdict.kind = "result"
     /\ Len(responses) = 2
     /\ \A i \in 1..2 : responses[i] \in WellFormed
     /\ \E i \in 1..2 : IdIs(responses[i], 1) /\ IdIs(responses[3 - i], 2))
    => IdIs(verdict.response, 2)
\* C3 (amended): the verdict is computed from the second recovered response
\* in output order, whatever its id: that response is the one the verdict
\* carries and the one whose result member decides a pass, and with fewer
\* than two recovered responses the verdict fails and carries none.
C3_ByPosition ==
    (called \in TwoRequestScenarios /\ verdict.kind = "result") =>
        IF Len(responses) >= 2
        THEN /\ verdict.response = responses[2]
             /\ verdict.passed <=> HasKey(responses[2], "result")
        ELSE verdict.response = None /\ ~verdict.passed
\* C3 witness: the server answered id 2 before id 1 and List tools took the
\* handshake response for the tools list.
C3_Witness ==
    /\ called = "test_tools_list"
    /\ Len(responses) = 2
    /\ IdIs(responses[1], 2) /\ IdIs(responses[2], 1)
    /\ verdict.passed
    /\ IdIs(verdict.response, 1)

\* C4 (as claimed): a recovered response holding both result and error is
\* no usable response: at the expected position it never yields a passing
\* verdict, and it supplies no capability entries.
C4_BothIsUnusable ==
    /\ (called \in TwoRequestScenarios /\ Len(responses) >= 2
        /\ IsBoth(responses[2])) => ~verdict.passed
    /\ (called \in {"test_initialize", "test_invalid_method"}
        /\ response # None /\ IsBoth(response)) => ~verdict.passed
    /\ (called = "get_mcp_capabilities"
        /\ \A i \in 1..Len(Recovered) :
              IdIs(Recovered[i], 2) => IsBoth(Recovered[i]))
       => capabilities.tools = JList(<< >>)

MissingDiagnostic == Msg("No response from tool", "")
\* C6: Call tool.  A second response with an error object and no result
\* fails, its diagnostic carries the error's message text and is not the
\* diagnostic of a missing response; a second response with a result
\* passes; fewer than two responses fail with the missing-response
\* diagnostic.
C6_CallToolVerdict ==
    called = "test_call_tool" =>
        /\ Len(responses) < 2 =>
              ~verdict.passed /\ verdict.message = MissingDiagnostic
        /\ (Len(responses) >= 2 /\ HasKey(responses[2], "result")) =>
              verdict.kind = "result" /\ verdict.passed
        /\ (/\ Len(responses) >= 2
            /\ ~HasKey(responses[2], "result")
            /\ HasKey(responses[2], "error")
            /\ Get(responses[2], "error").t = "obj") =>
              LET error == Get(responses[2], "error") IN
              /\ verdict.kind = "result"
              /\ ~verdict.passed
              /\ verdict.message # MissingDiagnostic
              /\ (HasKey(error, "message") /\ Get(error, "message").t = "str")
                    => verdict.message.arg = Get(error, "message").v
\* C6 witness: the second response is the error "bad args" and the failing
\* verdict names it.
C6_Witness ==
    /\ called = "test_call_tool"
    /\ Len(responses) >= 2
    /\ responses[2] = CallError
    /\ ~verdict.passed
    /\ verdict.message = Msg("Tool error: ", "bad args")

\* C7 (as claimed): when the scenario returns a verdict, Initialize passes
\* iff some recovered response has a result object holding protocolVersion,
\* and Invalid method passes iff some recovered response holds an error
\* object, whatever JSON-RPC line precedes it.
C7_SomeResponseQualifies ==
    /\ (called = "test_initialize" /\ verdict.kind = "result") =>
          (verdict.passed <=>
              \E i \in 1..Len(Recovered) :
                  /\ HasKey(Recovered[i], "result")
                  /\ Get(Recovered[i], "result").t = "obj"
                  /\ HasKey(Get(Recovered[i], "result"), "protocolVersion"))
    /\ (called = "test_invalid_method" /\ verdict.kind = "result") =>
          (verdict.passed <=>
              \E i \in 1..Len(Recovered) :
                  /\ HasKey(Recovered[i], "error")
                  /\ Get(Recovered[i], "error").t = "obj")

HasList(r, key) ==
    /\ HasKey(r, "result")
    /\ Get(r, "result").t = "obj"
    /\ HasKey(Get(r, "result"), key)
    /\ Get(Get(r, "result"), key).t = "list"
\* C8 (as claimed): when the scenario returns a verdict, List tools (List
\* resources) passes iff a second response was recovered whose result holds
\* a tools (resources) list; for List tools already so when every recovered
\* response is well formed.
C8_PassIffList ==
    /\ (/\ called = "test_tools_list"
        /\ verdict.kind = "result"
        /\ \A i \in 1..Len(responses) : responses[i] \in WellFormed) =>
          (verdict.passed <=>
              Len(responses) >= 2 /\ HasList(responses[2], "tools"))
    /\ (called = "test_resources_list" /\ verdict.kind = "result") =>
          (verdict.passed <=>
              Len(responses) >= 2 /\ HasList(responses[2], "resources"))

\* C9 (as claimed): every scenario function returns a TestResult, whatever
\* the recovered responses are; it never raises.
C9_NeverRaises == called \in Scenarios => verdict.kind = "result"

(***************************************************************************)
(* Claims about the full run (Spec).                                       *)
(***************************************************************************)
\* the session call of the last scenario started has returned
SessionOver == pc \in {"loop", "exited"}
Launched == child.st # "none"
\* the text is the batch: one line per message, each the JSON text of its
\* message, and a final newline
IsBatch(text, messages) ==
    LET lines == split_lines(text) IN
    /\ Len(lines) = Len(messages) + 1
    /\ lines[Len(lines)] = << >>
    /\ \A k \in 1..Len(messages) : lines[k] = json_dumps(messages[k])

\* C1 (as claimed): whenever a session call has returned, the subprocess it
\* launched has been killed or waited for.
C1_ChildReaped == (SessionOver /\ Launched) => child.st = "reaped"

ScenarioName(test) ==
    CASE test.fn = "test_initialize" -> "MCP Initialize"
      [] test.fn = "test_tools_list" -> "List Tools"
      [] test.fn = "test_resources_list" -> "List Resources"
      [] test.fn = "test_call_tool" -> "Call Tool: " \o test.tool
      [] test.fn = "test_invalid_method" -> "Invalid Method Error Handling"
\* C5 (as claimed): when the process has exited, run_all_tests ran all the
\* scenarios in declared order, one verdict each, returned the number of
\* passing verdicts and the number of scenarios, and the exit status is
\* non-zero iff some scenario failed.
C5_RunsEveryScenario ==
    pc = "exited" =>
        /\ Len(results) = Len(tests)
        /\ \A k \in 1..Len(results) : results[k].name = ScenarioName(tests[k])
        /\ ret = <<Cardinality({k \in 1..Len(results) : results[k].passed}),
                   Len(tests)>>
        /\ exitStatus # 0 <=> \E k \in 1..Len(results) : ~results[k].passed

\* C10 (as claimed): whenever a session call that launched a subprocess has
\* returned, the whole batch has been written to the child's input and the
\* input is closed, also when the timeout fired.
C10_AlwaysWrittenAndClosed ==
    (SessionOver /\ Launched) =>
        /\ child.stdin = "closed"
        /\ IsBatch(child.received, comm.messages)
\* C10 (amended): whenever a session call that launched a subprocess has
\* returned, then unless the timeout had elapsed before communicate() first
\* wrote (timeout 0: nothing is written, the input stays open), the input is
\* closed, also when the timeout fired afterwards, and what the child
\* received is the whole batch, or nothing when the child had exited before
\* the write (broken pipe).
C10_WrittenUnlessTooLate ==
    (SessionOver /\ Launched) =>
        /\ comm.pipe = "pending" =>
              timeout = 0 /\ comm.timedOut /\ child.received = << >>
        /\ comm.pipe # "pending" => child.stdin = "closed"
        /\ comm.pipe = "written" => IsBatch(child.received, comm.messages)
        /\ comm.pipe = "broken" => child.received = << >>
        /\ timeout > 0 => comm.pipe \in {"written", "broken"}
\* C10 witness: the server never answered, the timeout fired, and the call
\* returned with the two-request batch written and the input closed.
C10_Witness ==
    /\ SessionOver
    /\ comm.timedOut
    /\ child.st = "running"
    /\ child.out = << >>
    /\ child.stdin = "closed"
    /\ Len(comm.messages) = 2
    /\ child.received = comm.input

\* the diagnostic of each scenario when no usable response was recovered
NoResponseDiagnostic(test) ==
    CASE test.fn = "test_initialize" -> Msg("No valid initialize response", "")
      [] test.fn = "test_tools_list" -> Msg("Failed to get tools list", "")
      [] test.fn = "test_resources_list" ->
            Msg("Failed to get resources list", "")
      [] test.fn = "test_call_tool" -> Msg("No response from tool", "")
      [] test.fn = "test_invalid_method" ->
            Msg("Did not return error for invalid method", "")
\* the last session call ended in one of its except branches
TransportFailed ==
    /\ pc # "communicate"
    /\ n_test > 1 \/ pc = "exited"
    /\ child.st = "none" \/ comm.timedOut \/ comm.fault
\* C11: when the subprocess could not be started, the exchange timed out or
\* communicate() raised, nothing is raised past the session call (the run
\* goes on), and the scenario's verdict is a failing one that carries no
\* response and the scenario's no-response diagnostic.
C11_TransportFailureIsAFailingVerdict ==
    TransportFailed =>
        /\ ~(pc = "exited" /\ ret = NoReturn)
        /\ Len(results) = n_test - 1
        /\ results[n_test - 1].kind = "result"
        /\ results[n_test - 1].name = ScenarioName(tests[n_test - 1])
        /\ ~results[n_test - 1].passed
        /\ results[n_test - 1].response = None
        /\ results[n_test - 1].message = NoResponseDiagnostic(tests[n_test - 1])
\* C11 witness: the first session could not be started, the second timed
\* out, the third raised in communicate(); three failing verdicts, and the
\* run is still going.
C11_Witness ==
    /\ pc = "loop"
    /\ n_test = 4
    /\ comm.fault
    /\ results[1].message = NoResponseDiagnostic(tests[1])
    /\ \A k \in 1..3 : ~results[k].passed /\ results[k].response = None

(***************************************************************************)
(* Claims about the validator (SpecValidate).                              *)
(***************************************************************************)
Count(issues, Holds(_)) ==
    Cardinality({i \in 1..Len(issues) : Holds(issues[i])})
\* some entry of the capability lists has a blocking finding
HasBlocking(outcome) ==
    outcome.kind = "issues"
    /\ \E i \in 1..Len(outcome.issues) : outcome.issues[i].mark = Critical
BlockingExists ==
    \/ /\ sized(capabilities.tools)
       /\ \E k \in 1..Len(entries_of(capabilities.tools)) :
             HasBlocking(validate_tool_schema(
                 entries_of(capabilities.tools)[k]))
    \/ /\ sized(capabilities.prompts)
       /\ \E k \in 1..Len(entries_of(capabilities.prompts)) :
             HasBlocking(validate_prompt_schema(
                 entries_of(capabilities.prompts)[k]))
    \/ /\ sized(capabilities.resources)
       /\ \E k \in 1..Len(entries_of(capabilities.resources)) :
             HasBlocking(validate_resource_schema(
                 entries_of(capabilities.resources)[k]))
\* the server advertised three lists
ThreeLists ==
    /\ capabilities.tools.t = "list"
    /\ capabilities.prompts.t = "list"
    /\ capabilities.resources.t = "list"
\* C12 (as claimed): when the validator has exited on three advertised
\* lists, its exit status is 1 iff some tool, prompt or resource has a
\* blocking finding.
C12_ExitOneIffBlocking ==
    (at = "exited" /\ ThreeLists) => (exitStatus = 1 <=> BlockingExists)

\* the property definitions of a tool whose schema has the advertised shape
Properties(tool) ==
    IF /\ tool.t = "obj"
       /\ HasKey(tool, "inputSchema")
       /\ Get(tool, "inputSchema").t = "obj"
       /\ HasKey(Get(tool, "inputSchema"), "properties")
       /\ Get(Get(tool, "inputSchema"), "properties").t = "obj"
    THEN Get(Get(tool, "inputSchema"), "properties").v
    ELSE << >>
DefaultTexts == {"'default' is empty array []",
                 "'default' contains malformed array"}
\* C13: after the tool rule has returned, for every declared property: an
\* empty-list default has exactly one finding of the default rule, an
\* advisory one; a non-empty list default that starts with the text "c" has
\* exactly one, a blocking one; any other default (null, absent, another
\* value) has none; and the property has its description finding exactly
\* when its description is present and no text, whatever its default.
C13_DefaultRule ==
    (probe.rule = "tools" /\ probe.outcome.kind = "issues") =>
        \A p \in 1..Len(Properties(probe.entry)) :
            LET prop == Properties(probe.entry)[p]
                subject == <<name_of(probe.entry, "name"), prop.k>>
                found == probe.outcome.issues
                OfDefault(i) == i.subject = subject /\ i.text \in DefaultTexts
                OfDescription(i) ==
                    /\ i.subject = subject
                    /\ i.text = "'description' must be a string"
                Blocking(i) == OfDefault(i) /\ i.mark = Critical
                Advisory(i) == OfDefault(i) /\ i.mark = Warning
                default == GetOr(prop.v, "default", None) IN
            prop.v.t = "obj" =>
              /\ IF default.t = "list" /\ Len(default.v) = 0
                 THEN Count(found, Advisory) = 1 /\ Count(found, Blocking) = 0
                 ELSE IF default.t = "list" /\ default.v[1] = JStr("c")
                 THEN Count(found, Blocking) = 1 /\ Count(found, Advisory) = 0
                 ELSE Count(found, OfDefault) = 0
              /\ Count(found, OfDescription) =
                    IF HasKey(prop.v, "description")
                       /\ Get(prop.v, "description").t # "str"
                    THEN 1 ELSE 0
\* C13 witness: a tool with a default ["symbol"], a default "lenient" and
\* an empty-list default beside a numeric description: one advisory finding
\* and the description's blocking one.
C13_Witness ==
    /\ probe.rule = "tools"
    /\ probe.entry = ToolOtherDefaults
    /\ Len(probe.outcome.issues) = 2
    /\ probe.outcome.issues[1].mark = Warning
    /\ probe.outcome.issues[2].mark = Critical

\* C14: after the resource rule has run on an entry that is an object, it
\* has returned, for each of uri, name and mimeType, exactly one finding
\* naming the field when the field is missing or no text and none
\* otherwise, each blocking and naming the resource's uri, and nothing else;
\* a resource missing only mimeType has the one finding for mimeType.
C14_ResourceRule ==
    (probe.rule = "resources" /\ probe.entry.t = "obj") =>
        /\ probe.outcome.kind = "issues"
        /\ \A f \in 1..Len(required_fields) :
              LET field == required_fields[f]
                  Names(i) == i.arg = field
                  bad == ~HasKey(probe.entry, field)
                         \/ Get(probe.entry, field).t # "str" IN
              Count(probe.outcome.issues, Names) = IF bad THEN 1 ELSE 0
        /\ \A i \in 1..Len(probe.outcome.issues) :
              /\ probe.outcome.issues[i].mark = Critical
              /\ probe.outcome.issues[i].subject =
                    <<"Resource", name_of(probe.entry, "uri")>>
              /\ \E f \in 1..Len(required_fields) :
                    probe.outcome.issues[i].arg = required_fields[f]
        /\ probe.entry = ResourceNoMime =>
              probe.outcome.issues =
                  <<Issue(Critical, <<"Resource", "hgnc://stats">>,
                          "missing required field", "mimeType")>>
\* C14 witness: the resource rule ran on a resource with a null mimeType
\* and returned the one finding for it.
C14_Witness ==
    /\ probe.rule = "resources"
    /\ probe.entry = ResourceNullMime
    /\ probe.outcome.issues =
          <<Issue(Critical, <<"Resource", "hgnc://stats">>,
                  "must be a string", "mimeType")>>

C16_EveryEntryEvaluated ==
    (at = "exited" /\ ThreeLists) =>
        /\ uncaught = "none"
        /\ checked = Len(entries_of(capabilities.tools))
                     + Len(entries_of(capabilities.prompts))
                     + Len(entries_of(capabilities.resources))

\* the responses in the output, whatever their order: the lines that decode
\* to a tagged object with this id and a result
Answers == tagged_lines(split_lines(captured), 1)
AnswersTo(answers, id) ==
    {answers[i] : i \in {j \in 1..Len(answers) :
                            /\ IdIs(answers[j], id)
                            /\ HasKey(answers[j], "result")}}
ListOf(answered, key) ==
    IF answered = {} THEN JList(<< >>)
    ELSE GetOr(Get(CHOOSE o \in answered : TRUE, "result"), key, JList(<< >>))
\* one response at most per list request, its result an object
OneAnswerEach(answers) ==
    \A id \in {2, 3, 4} :
        /\ Cardinality(AnswersTo(answers, id)) <= 1
        /\ \A o \in AnswersTo(answers, id) : Get(o, "result").t = "obj"
ListsById(answers) ==
    OneAnswerEach(answers) =>
        /\ capabilities.tools = ListOf(AnswersTo(answers, 2), "tools")
        /\ capabilities.prompts = ListOf(AnswersTo(answers, 3), "prompts")
        /\ capabilities.resources = ListOf(AnswersTo(answers, 4), "resources")
JustReturned == at \in {"tools", "exited"} /\ checked = 0 /\ all_issues = << >>
\* C17: when get_mcp_capabilities has returned from a session whose output
\* holds at most one response with a result per list request, in any order
\* and among other lines, the tools are the tools list of the response with
\* id 2, the prompts that of id 3, the resources that of id 4, and a list
\* whose id has no response with a result is empty.
C17_ListsByIdInAnyOrder ==
    (JustReturned /\ session = "returns") => ListsById(Answers)
\* C17 witness: the server answered id 4 before id 2, with a log line in
\* between, and both lists were returned.
Reordered(answers) ==
    /\ \E i, j \in 1..Len(answers) :
          i < j /\ IdIs(answers[i], 4) /\ IdIs(answers[j], 2)
    /\ Len(split_lines(captured)) > Len(answers) + 1
C17_Witness ==
    /\ at = "tools"
    /\ checked = 0
    /\ capabilities.tools = JList(<<ToolEmptyDefault>>)
    /\ capabilities.resources = JList(<<ResourceNoMime>>)
    /\ Reordered(Answers)

\* the server answered no list request with a result
NoneAnswered(answers) == \A id \in {2, 3, 4} : AnswersTo(answers, id) = {}
NoListAnswered == session = "returns" /\ NoneAnswered(Answers)
\* C18: when the session failed (no subprocess, timeout, fault), or no list
\* request was answered with a result, get_mcp_capabilities has returned
\* the three empty lists, and the validator has exited with no finding, no
\* exception and status 0.
C18_FailedSessionExitsZero ==
    (/\ JustReturned \/ at = "exited"
     /\ session \in SessionEnds \/ NoListAnswered) =>
        /\ capabilities = EmptyCapabilities
        /\ all_issues = << >>
        /\ uncaught = "none"
        /\ at = "exited" => exitStatus = 0
\* C18 witness: the session timed out and the validator exited with 0.
C18_Witness ==
    /\ session = "timeout"
    /\ at = "exited"
    /\ capabilities = EmptyCapabilities
    /\ exitStatus = 0

(***************************************************************************)
(* The tester as an object: run_all_tests called again and again on the    *)
(* tester __init__ built.  self.results is created once, by __init__, and  *)
(* every invocation appends to it.  The sessions of one invocation all     *)
(* meet the same server behaviour, or the same transport failure.          *)
(***************************************************************************)
RunnerServers == {"well", "errors", "malformed", "silent"}
\* the answer of a server of the given behaviour to the k-th request; the
\* handshake of a two-request batch is answered well
Answer(kind, messages, k) ==
    LET method == Get(messages[k], "method").v IN
    CASE method = "initialize" ->
            IF kind = "errors" /\ Len(messages) = 1 THEN InitError
            ELSE InitOk
      [] method = "tools/list" ->
            IF kind = "well" THEN ToolsOk
            ELSE IF kind = "errors" THEN CallError ELSE ResultNull
      [] method = "resources/list" ->
            IF kind = "well" THEN ResourcesOk
            ELSE IF kind = "errors" THEN CallError ELSE ResultNull
      [] method = "tools/call" ->
            IF kind = "well" THEN CallOk
            ELSE IF kind = "errors" THEN CallError ELSE ErrorText
      [] method = "invalid/method" ->
            IF kind = "malformed" THEN ErrorText ELSE NotFound
\* the stdout communicate() returns from such a server
Served(kind, messages) ==
    IF kind \in {"well", "errors", "malformed"}
    THEN join_lines([k \in 1..Len(messages) |->
                        json_dumps(Answer(kind, messages, k))], 1)
    ELSE << >>

\* tester = MCPStdioTester(...)
RunnerInit ==
    /\ captured = << >>
    /\ ScanIdle
    /\ pc = "idle"
    /\ n_test = 1
    /\ results = << >>
    /\ child = NoChild
    /\ comm = NoComm
    /\ ret = NoReturn
    /\ exitStatus = -1
    /\ OtherIdle
    /\ timeout = 30
\* tester.run_all_tests() is called: the loop starts at the first scenario,
\* self.results is left as it is
CallRunAllTests ==
    /\ pc = "idle"
    /\ invocations < MaxRuns
    /\ invocations' = invocations + 1
    /\ session' \in RunnerServers \cup SessionEnds
    /\ pc' = "loop"
    /\ n_test' = 1
    /\ UNCHANGED <<timeout, results, child, comm, ret, exitStatus,
                   scanVars, at, k_entry, all_issues, probe, uncaught,
                   checked>>
\* one pass of the loop: result = test(); self.results.append(result).  A
\* scenario that raises ends the invocation, the exception reaching the
\* caller
RunScenario ==
    /\ pc = "loop"
    /\ n_test <= Len(tests)
    /\ LET messages == Messages(tests[n_test])
           result == run_test(tests[n_test], session \in RunnerServers,
                              Served(session, messages)) IN
       IF result.kind = "raise"
       THEN /\ pc' = "idle"
            /\ UNCHANGED <<n_test, results>>
       ELSE /\ results' = Append(results, result)
            /\ n_test' = n_test + 1
            /\ UNCHANGED pc
    /\ UNCHANGED <<timeout, child, comm, ret, exitStatus, scanVars,
                   otherVars>>
\* the summary: passed and total are taken from self.results, and returned
ReturnCounts ==
    /\ pc = "loop"
    /\ n_test > Len(tests)
    /\ ret' = <<Cardinality({k \in 1..Len(results) : results[k].passed}),
                Len(results)>>
    /\ pc' = "idle"
    /\ UNCHANGED <<timeout, n_test, results, child, comm, exitStatus, scanVars,
                   otherVars>>
RunnerNext ==
    \/ CallRunAllTests
    \/ RunScenario
    \/ ReturnCounts
SpecRunner == RunnerInit /\ [][RunnerNext]_vars

\* C19: every invocation of run_all_tests returns a pair that counts only
\* the verdicts of that invocation, so each invocation that returns reports
\* total = 9, however many invocations the tester has served.
C19_EachInvocationCountsItsOwn ==
    ret # NoReturn => ret[2] = Len(tests)
=============================================================================
